---------------------------- MODULE Spec2Model ----------------------------
(***************************************************************************)
(* A model of the Occura plugin (obsidian-occura-plugin): the live         *)
(* occurrence highlighter (a CodeMirror ViewPlugin) and the four           *)
(* Permanent-Mark commands (wrap / unwrap with ==, tag / untag with #).    *)
(*                                                                         *)
(* Text is a sequence of one-character strings.  Offsets are 0-based and   *)
(* end-exclusive as in the source; Slice converts to TLA+'s 1-based        *)
(* sequences.                                                              *)
(***************************************************************************)
EXTENDS Integers, Sequences, FiniteSets, TLC

(***************************************************************************)
(* Bounds of the model.                                                    *)
(***************************************************************************)
\* longest document the initial state draws; growing commands (wrap, tag)
\* are taken only on documents up to this length
MaxDocLen == 3
\* widest selection range the user draws
MaxSelLen == 3

(***************************************************************************)
(* Characters.                                                             *)
(***************************************************************************)
\* the characters \w matches (of the model's alphabet)
WordChars == {"a", "A"}
\* the characters \s matches
SpaceChars == {" "}
\* the characters escapeRegex puts a backslash before
MetaChars == {".", "*", "+", "?", "^", "$", "{", "}", "(", ")", "|", "[", "]", "\\"}

\* String.prototype.toUpperCase on one character
toUpperCase(c) == IF c = "a" THEN "A" ELSE c

\* all sequences over S of length 0..n
RECURSIVE SeqsUpTo(_, _)
SeqsUpTo(S, n) ==
    IF n = 0 THEN {<<>>}
    ELSE LET shorter == SeqsUpTo(S, n - 1)
         IN  shorter \cup {Append(s, c) : s \in {t \in shorter : Len(t) = n - 1}, c \in S}

\* doc.slice(from, to) / sliceString(from, to), 0-based, end-exclusive
Slice(s, from, to) == SubSeq(s, from + 1, to)

Min(S) == CHOOSE x \in S : \A y \in S : x <= y
Max(S) == CHOOSE x \in S : \A y \in S : x >= y

\* String.prototype.trim
trim(s) ==
    LET keep == {i \in 1..Len(s) : s[i] \notin SpaceChars}
    IN  IF keep = {} THEN <<>> ELSE SubSeq(s, Min(keep), Max(keep))

\* /\s/.test(s)
HasSpace(s) == \E i \in 1..Len(s) : s[i] \in SpaceChars

\* a test that is content with one word character
IsPureWordAny(s) == \E i \in 1..Len(s) : s[i] \in WordChars

\* /^\w+$/.test(s)
IsPureWord(s) == Len(s) > 0 /\ \A i \in 1..Len(s) : s[i] \in WordChars

(***************************************************************************)
(* Pattern builder: escapeRegex and buildRegex produce the SOURCE of a     *)
(* regular expression; Compile reads that source back the way the RegExp   *)
(* constructor does (backslash pairs, \b, the wildcard).                   *)
(***************************************************************************)
\* a replace that escapes nothing
escapeNothing(text) == text

\* text.replace(/[.*+?^${}()|[\]\\]/g, '\\$&')
RECURSIVE escapeRegex(_)
escapeRegex(text) ==
    IF text = <<>> THEN <<>>
    ELSE (IF Head(text) \in MetaChars THEN <<"\\", Head(text)>> ELSE <<Head(text)>>)
         \o escapeRegex(Tail(text))

\* a builder that never asks for word boundaries
buildRegexNoBoundary(text, caseSensitive, wholeWord) ==
    [source |-> escapeRegex(text), ignoreCase |-> ~caseSensitive]

buildRegex(text, caseSensitive, wholeWord) ==
    LET escaped      == escapeRegex(text)
        needBoundary == wholeWord /\ IsPureWord(text)
    IN  [source |-> IF needBoundary THEN <<"\\", "b">> \o escaped \o <<"\\", "b">>
                    ELSE escaped,
         ignoreCase |-> ~caseSensitive]

\* the atoms of a pattern source: "\b" is the word-boundary assertion, any
\* other backslash pair is the escaped character itself, an unescaped "." is
\* the wildcard, everything else stands for itself
RECURSIVE Compile(_)
Compile(src) ==
    IF src = <<>> THEN <<>>
    ELSE IF Head(src) = "\\" /\ Len(src) >= 2
         THEN (IF src[2] = "b" THEN <<[t |-> "wb", c |-> ""]>>
               ELSE <<[t |-> "lit", c |-> src[2]]>>) \o Compile(SubSeq(src, 3, Len(src)))
         ELSE (IF Head(src) = "." THEN <<[t |-> "any", c |-> ""]>>
               ELSE <<[t |-> "lit", c |-> Head(src)]>>) \o Compile(Tail(src))

\* new RegExp(source, flags) throws a SyntaxError on a source that ends in a
\* lone backslash (the one malformed source the model's alphabet can spell)
RECURSIVE Rejected(_)
Rejected(src) ==
    IF src = <<>> THEN FALSE
    ELSE IF Head(src) = "\\"
         THEN Len(src) = 1 \/ Rejected(SubSeq(src, 3, Len(src)))
         ELSE Rejected(Tail(src))

\* is there a word boundary in text before 0-based position p
AtBoundary(text, p) ==
    LET before == p >= 1 /\ p <= Len(text) /\ text[p] \in WordChars
        after  == p < Len(text) /\ text[p + 1] \in WordChars
    IN  before # after

SameChar(a, b, ignoreCase) == IF ignoreCase THEN toUpperCase(a) = toUpperCase(b) ELSE a = b

\* the end offset of the match of atoms[k..] at position p, or -1
RECURSIVE MatchAt(_, _, _, _, _)
MatchAt(atoms, k, text, p, ignoreCase) ==
    IF k > Len(atoms) THEN p
    ELSE IF atoms[k].t = "wb"
         THEN IF AtBoundary(text, p) THEN MatchAt(atoms, k + 1, text, p, ignoreCase) ELSE -1
         ELSE IF p >= Len(text) THEN -1
              ELSE IF atoms[k].t = "any" \/ SameChar(atoms[k].c, text[p + 1], ignoreCase)
                   THEN MatchAt(atoms, k + 1, text, p + 1, ignoreCase)
                   ELSE -1

\* a scan that resumes one character after the start of a match
RECURSIVE ExecScanOverlapping(_, _, _, _)
ExecScanOverlapping(atoms, ignoreCase, text, i) ==
    IF i > Len(text) THEN <<>>
    ELSE LET e == MatchAt(atoms, 1, text, i, ignoreCase)
         IN  IF e = -1 THEN ExecScanOverlapping(atoms, ignoreCase, text, i + 1)
             ELSE <<[index |-> i, length |-> e - i]>>
                  \o (IF e > i THEN ExecScanOverlapping(atoms, ignoreCase, text, i + 1)
                      ELSE <<>>)

\* the loop  while ((m = re.exec(text))) ...  of a /g expression, started at
\* lastIndex: the matches left to right, each search resuming at the end of
\* the previous match
RECURSIVE ExecScan(_, _, _, _)
ExecScan(atoms, ignoreCase, text, i) ==
    IF i > Len(text) THEN <<>>
    ELSE LET e == MatchAt(atoms, 1, text, i, ignoreCase)
         IN  IF e = -1 THEN ExecScan(atoms, ignoreCase, text, i + 1)
             ELSE <<[index |-> i, length |-> e - i]>>
                  \o (IF e > i THEN ExecScan(atoms, ignoreCase, text, e) ELSE <<>>)

ExecFrom(re, text, lastIndex) == ExecScan(Compile(re.source), re.ignoreCase, text, lastIndex)

ExecAll(re, text) == ExecFrom(re, text, 0)


(***************************************************************************)
(* State.                                                                  *)
(***************************************************************************)
VARIABLES
    doc,        \* the text of the document in the editor
    notice,     \* the Notice shown by the last command invocation ("none": none)
    fault,      \* the last command invocation ended in an uncaught exception
    txLog,      \* the document as the host saw it after each transaction of
                \* the last command invocation, in order
    last,       \* what the last command invocation was given
    rt,         \* set when an inverse command ran right after its forward
                \* command with the same literal: the text before the pair
    applied,    \* the ranges the last command invocation replaced, in the
                \* order it replaced them, each with the text the document
                \* held in the range at that moment
    settings,   \* plugin.settings
    selection,  \* state.selection.main of the editor view: [from, to]
    visibleRanges,  \* view.visibleRanges: the windows the host shows
    decorations,    \* this.decorations: the spans in the order they were
                    \* added to the RangeSetBuilder
    lastEnabled,    \* this.lastEnabled
    lastAutoHL,     \* this.lastAutoHL
    foundCount,     \* the module-level counter shown in the status bar
    statusBarOccurrencesNumber, \* plugin.statusBarOccurrencesNumber: whether
                                \* the item was created, its text, and how
                                \* many items addStatusBarItem has made
    shared,     \* settings.keywordGroups is the array object that
                \* DEFAULT_SETTINGS.keywordGroups holds
    pass,       \* the configuration flags as the last buildDecorations pass
                \* read them
    trigger,    \* the operation SpecConfig took last
    passes,     \* how many buildDecorations passes the last operation on
                \* the view or the settings ran
    keyboard,   \* the hotkey of the plugin: the stored string, the keydown
                \* listeners on the window, this.keyHandler, and the last
                \* key event pressed with the number of toggles it made
    probe       \* a pattern built for a literal and run over a text

markVars == <<doc, notice, fault, txLog, last, rt, applied>>

liveVars == <<settings, selection, visibleRanges, decorations, lastEnabled,
              lastAutoHL, foundCount, statusBarOccurrencesNumber, passes>>

configVars == <<shared, pass, trigger>>

vars == <<doc, notice, fault, txLog, last, rt, applied, settings, selection,
          visibleRanges, decorations, lastEnabled, lastAutoHL, foundCount,
          statusBarOccurrencesNumber, shared, pass, trigger, passes, keyboard,
          probe>>

(***************************************************************************)
(* Settings.  Of OccuraPluginSettings the fields the highlighter reads.    *)
(***************************************************************************)
DEFAULT_SETTINGS ==
    [occuraPluginEnabled               |-> TRUE,
     statusBarOccurrencesNumberEnabled |-> TRUE,
     autoKeywordsHighlightEnabled      |-> FALSE,
     occuraCaseSensitive               |-> FALSE,
     keywordGroups                     |-> <<>>]

\* a KeywordGroup
KeywordGroup(id, keywords, enabled, caseSensitive) ==
    [id |-> id, keywords |-> keywords, enabled |-> enabled, caseSensitive |-> caseSensitive]

\* saved data of an earlier session: the plugin was switched off, keyword
\* highlighting is on and three classes are declared, the second disabled,
\* the first and third sharing a word; one word is blank
SavedSettings ==
    [DEFAULT_SETTINGS EXCEPT
        !.occuraPluginEnabled = FALSE,
        !.autoKeywordsHighlightEnabled = TRUE,
        !.occuraCaseSensitive = TRUE,
        !.keywordGroups =
            <<KeywordGroup("g1", <<<<"a", "a">>, <<" ">>>>, TRUE, FALSE),
              KeywordGroup("g2", <<<<"a">>>>, FALSE, FALSE),
              KeywordGroup("g3", <<<<"a", "a">>, <<"a">>>>, TRUE, TRUE)>>]

\* loadSettings: Object.assign({}, DEFAULT_SETTINGS, await this.loadData())
\* with no saved data, or with the saved data above
loadSettings == {DEFAULT_SETTINGS, SavedSettings}

\* saved data of a session in which the plugin was switched off
SavedDisabled == [DEFAULT_SETTINGS EXCEPT !.occuraPluginEnabled = FALSE]

\* the configuration flags a pass over settings s reads
TrackedFlags(s) ==
    [occuraPluginEnabled          |-> s.occuraPluginEnabled,
     occuraCaseSensitive          |-> s.occuraCaseSensitive,
     autoKeywordsHighlightEnabled |-> s.autoKeywordsHighlightEnabled,
     caseSensitiveGroups          |-> {s.keywordGroups[k].id :
                                          k \in {g \in 1..Len(s.keywordGroups) :
                                                    s.keywordGroups[g].caseSensitive}}]

\* the keyboard before onload: no hotkey stored, no listener
NoKeyboard ==
    [stored |-> <<>>, keyHandler |-> 0, listeners |-> {}, handlers |-> 0,
     isMacOS |-> FALSE, loaded |-> FALSE, pressed |-> <<>>, fired |-> 0,
     before |-> FALSE]

\* no pattern has been run
NoProbe ==
    [text |-> <<>>, literal |-> <<>>, caseSensitive |-> FALSE, wholeWord |-> FALSE,
     ran |-> FALSE, threw |-> FALSE, matches |-> <<>>]

(***************************************************************************)
(* Permanent-Mark commands.                                                *)
(***************************************************************************)
\* a list left in ascending order
ReverseSkipped(s) == s

\* Array.prototype.reverse
Reverse(s) == [i \in 1..Len(s) |-> s[Len(s) + 1 - i]]

\* a search that stops at the first match
FindFirstMatch(re, text) ==
    LET ms == ExecAll(re, text)
    IN  IF ms = <<>> THEN <<>>
        ELSE <<[from |-> ms[1].index, to |-> ms[1].index + ms[1].length]>>

\* matches.push({ from: m.index, to: m.index + m[0].length }) for every exec
FindMatches(re, text) ==
    LET ms == ExecAll(re, text)
    IN  [i \in 1..Len(ms) |-> [from |-> ms[i].index, to |-> ms[i].index + ms[i].length]]

\* cm.dispatch({ changes }): one transaction; every change's positions refer
\* to the document before the transaction, whatever the order of the list
\* (the changes of one command replace disjoint, non-empty ranges)
RECURSIVE ApplyFrom(_, _, _)
ApplyFrom(text, changes, p) ==
    LET here == {i \in 1..Len(changes) : changes[i].from = p /\ changes[i].to > p}
    IN  IF here # {}
        THEN changes[Min(here)].insert \o ApplyFrom(text, changes, changes[Min(here)].to)
        ELSE IF p >= Len(text) THEN <<>>
             ELSE <<text[p + 1]>> \o ApplyFrom(text, changes, p + 1)

dispatchChanges(text, changes) == ApplyFrom(text, changes, 0)

\* editor.replaceRange(replacement, from, to): its own transaction
replaceRange(text, replacement, from, to) ==
    Slice(text, 0, from) \o replacement \o Slice(text, to, Len(text))

\* insert: `==${doc.slice(r.from, r.to)}==`
WrapInsert(text, r) == <<"=", "=">> \o Slice(text, r.from, r.to) \o <<"=", "=">>

\* a strip of one marker character on each side
UnwrapInsertOneChar(text, r) == Slice(text, r.from + 1, r.to - 1)

\* insert: doc.slice(r.from + 2, r.to - 2)
UnwrapInsert(text, r) == Slice(text, r.from + 2, r.to - 2)

\* `#${word}`
TagInsert(word) == <<"#">> \o word

\* text.replace(/^#+/, '')
RECURSIVE UntagInsert(_)
UntagInsert(text) ==
    IF text # <<>> /\ Head(text) = "#" THEN UntagInsert(Tail(text)) ELSE text

\* what a command leaves behind; the success notices are kept without the
\* number of occurrences they name
Outcome(d, n, f, log) ==
    [doc |-> d, notice |-> n, fault |-> f, txLog |-> log, applied |-> <<>>]

\* the ranges a change list replaces, in the order of the list, with the text
\* of d in each (one transaction: every range is read off the same text)
Replaced(d, changes) ==
    [i \in 1..Len(changes) |->
        [from |-> changes[i].from, to |-> changes[i].to,
         text |-> Slice(d, changes[i].from, changes[i].to)]]

\* a guard that forgets the whitespace test
BadSelectionEmptyOnly(sel) == sel = <<>>

\* the selection guard shared by the four commands:  !sel || /\s/.test(sel)
BadSelection(sel) == sel = <<>> \/ HasSpace(sel)

\* setPermanentHighlightOccurrences: the outcome on text d
WrapOutcome(d, hasView, hasCm, getSelection) ==
    IF ~hasView THEN Outcome(d, "No active editor", FALSE, <<>>)
    ELSE LET sel == trim(getSelection)
         IN  IF BadSelection(sel) THEN Outcome(d, "Select some text first.", FALSE, <<>>)
             ELSE LET re      == buildRegex(sel, TRUE, FALSE)
                      matches == FindMatches(re, d)
                      rev     == Reverse(matches)
                      changes == [i \in 1..Len(rev) |->
                                    [from |-> rev[i].from, to |-> rev[i].to,
                                     insert |-> WrapInsert(d, rev[i])]]
                  IN  IF matches = <<>> THEN Outcome(d, "No occurrences found.", FALSE, <<>>)
                      ELSE IF ~hasCm THEN Outcome(d, "none", TRUE, <<>>)
                      ELSE LET d2 == dispatchChanges(d, changes)
                           IN  [Outcome(d2, "Permanently highlighted occurrences.", FALSE, <<d2>>)
                                   EXCEPT !.applied = Replaced(d, changes)]

\* removePermanentHighlightOccurrences: the outcome on text d
UnwrapOutcome(d, hasView, hasCm, getSelection) ==
    IF ~hasView THEN Outcome(d, "No active editor", FALSE, <<>>)
    ELSE LET sel == trim(getSelection)
         IN  IF BadSelection(sel) THEN Outcome(d, "Select text to un-highlight.", FALSE, <<>>)
             ELSE LET re      == buildRegex(<<"=", "=">> \o sel \o <<"=", "=">>, TRUE, FALSE)
                      matches == FindMatches(re, d)
                      rev     == Reverse(matches)
                      changes == [i \in 1..Len(rev) |->
                                    [from |-> rev[i].from, to |-> rev[i].to,
                                     insert |-> UnwrapInsert(d, rev[i])]]
                  IN  IF matches = <<>>
                      THEN Outcome(d, "No highlighted occurrences found.", FALSE, <<>>)
                      ELSE IF ~hasCm THEN Outcome(d, "none", TRUE, <<>>)
                      ELSE LET d2 == dispatchChanges(d, changes)
                           IN  [Outcome(d2, "Removed highlighting from occurrences.", FALSE, <<d2>>)
                                   EXCEPT !.applied = Replaced(d, changes)]

\* matches.reverse().forEach(r => editor.replaceRange(...)) of the tag
\* commands: one replaceRange, hence one transaction, per match, each reading
\* the range's text from the document as the earlier steps left it
RECURSIVE TagEach(_, _, _, _)
TagEach(d, rev, log, done) ==
    IF rev = <<>> THEN [doc |-> d, txLog |-> log, applied |-> done]
    ELSE LET r    == Head(rev)
             word == Slice(d, r.from, r.to)
             d2   == replaceRange(d, TagInsert(word), r.from, r.to)
         IN  TagEach(d2, Tail(rev), Append(log, d2),
                     Append(done, [from |-> r.from, to |-> r.to, text |-> word]))

RECURSIVE UntagEach(_, _, _, _)
UntagEach(d, rev, log, done) ==
    IF rev = <<>> THEN [doc |-> d, txLog |-> log, applied |-> done]
    ELSE LET r    == Head(rev)
             text == UntagInsert(Slice(d, r.from, r.to))
             d2   == replaceRange(d, text, r.from, r.to)
         IN  UntagEach(d2, Tail(rev), Append(log, d2),
                       Append(done, [from |-> r.from, to |-> r.to,
                                     text |-> Slice(d, r.from, r.to)]))

\* createTagForOccurrences: the outcome on text d
TagOutcome(d, hasView, getSelection) ==
    IF ~hasView THEN Outcome(d, "No active editor", FALSE, <<>>)
    ELSE LET sel == trim(getSelection)
         IN  IF BadSelection(sel) THEN Outcome(d, "Select one word to tag.", FALSE, <<>>)
             ELSE LET re      == buildRegex(sel, TRUE, TRUE)
                      matches == FindMatches(re, d)
                  IN  IF matches = <<>> THEN Outcome(d, "No occurrences found.", FALSE, <<>>)
                      ELSE LET res == TagEach(d, Reverse(matches), <<>>, <<>>)
                           IN  [Outcome(res.doc, "Tagged occurrences.", FALSE, res.txLog)
                                   EXCEPT !.applied = res.applied]

\* removeTagFromOccurrences: the outcome on text d
UntagOutcome(d, hasView, getSelection) ==
    IF ~hasView THEN Outcome(d, "No active editor", FALSE, <<>>)
    ELSE LET sel == trim(getSelection)
         IN  IF BadSelection(sel) THEN Outcome(d, "Select the tagged word.", FALSE, <<>>)
             ELSE LET re      == buildRegex(<<"#">> \o sel, TRUE, FALSE)
                      matches == FindMatches(re, d)
                  IN  IF matches = <<>> THEN Outcome(d, "No tagged occurrences found.", FALSE, <<>>)
                      ELSE LET res == UntagEach(d, Reverse(matches), <<>>, <<>>)
                           IN  [Outcome(res.doc, "Removed tags from occurrences.", FALSE, res.txLog)
                                   EXCEPT !.applied = res.applied]

(***************************************************************************)
(* The command handlers as actions.  What the host hands a handler is      *)
(* drawn here: whether a Markdown view is active, whether its editor       *)
(* exposes the CodeMirror view, and editor.getSelection(), the text of a   *)
(* range of the document.                                                  *)
(***************************************************************************)
\* the alphabet of the documents the commands are run on
MarkChars == {"a", "=", "#", " "}

SelRanges(d) ==
    UNION {{[from |-> f, to |-> t] : t \in f..(IF f + MaxSelLen < Len(d) THEN f + MaxSelLen ELSE Len(d))} :
           f \in 0..Len(d)}

\* the texts editor.getSelection() can return: the text of some range
Selections(d) == {Slice(d, r.from, r.to) : r \in SelRanges(d)}

NoInvocation ==
    [cmd |-> "none", view |-> FALSE, cm |-> FALSE, sel |-> <<>>, before |-> <<>>,
     ran |-> FALSE]
NoRoundTrip == [kind |-> "none", orig |-> <<>>]

\* what is remembered of an invocation: the command, whether a view was
\* active, whether its editor exposed the CodeMirror view, the trimmed
\* selection it read (none without a view), the text before it, and ran: it
\* applied its transform (it dispatched an edit)
Invocation(cmd, hasView, hasCm, getSelection, out) ==
    [cmd |-> cmd, view |-> hasView, cm |-> hasCm,
     sel |-> IF hasView THEN trim(getSelection) ELSE <<>>,
     before |-> doc,
     ran |-> out.txLog # <<>>]

\* the inverse command inv closes a round trip when the forward command fwd
\* was the invocation before it, with the same literal, and both applied
\* their transform
Closes(fwd, inv) ==
    /\ last.cmd = fwd
    /\ last.ran
    /\ inv.ran
    /\ inv.sel = last.sel

Finish(out, inv, roundTrip) ==
    /\ doc' = out.doc
    /\ notice' = out.notice
    /\ fault' = out.fault
    /\ txLog' = out.txLog
    /\ last' = inv
    /\ rt' = roundTrip
    /\ applied' = out.applied
    /\ UNCHANGED <<liveVars, configVars, probe, keyboard>>

Wrap(hasView, hasCm, getSelection) ==
    LET out == WrapOutcome(doc, hasView, hasCm, getSelection)
    IN  Finish(out, Invocation("wrap", hasView, hasCm, getSelection, out), NoRoundTrip)

Unwrap(hasView, hasCm, getSelection) ==
    LET out == UnwrapOutcome(doc, hasView, hasCm, getSelection)
        inv == Invocation("unwrap", hasView, hasCm, getSelection, out)
    IN  Finish(out, inv,
               IF Closes("wrap", inv) THEN [kind |-> "wrap", orig |-> last.before]
               ELSE NoRoundTrip)

Tag(hasView, getSelection) ==
    LET out == TagOutcome(doc, hasView, getSelection)
    IN  Finish(out, Invocation("tag", hasView, hasView, getSelection, out), NoRoundTrip)

Untag(hasView, getSelection) ==
    LET out == UntagOutcome(doc, hasView, getSelection)
        inv == Invocation("untag", hasView, hasView, getSelection, out)
    IN  Finish(out, inv,
               IF Closes("tag", inv) THEN [kind |-> "tag", orig |-> last.before]
               ELSE NoRoundTrip)

\* (editor as any).cm is read only once the guards are passed and a match is
\* found: only then does it matter whether the editor exposes it
CmChoices(re, d, getSelection) ==
    IF ~BadSelection(trim(getSelection)) /\ FindMatches(re, d) # <<>> THEN BOOLEAN ELSE {TRUE}

\* without an active view the handler returns before it reads anything else
setPermanentHighlightOccurrences ==
    /\ Len(doc) <= MaxDocLen
    /\ \/ Wrap(FALSE, FALSE, <<>>)
       \/ \E getSelection \in Selections(doc) :
            \E hasCm \in CmChoices(buildRegex(trim(getSelection), TRUE, FALSE), doc, getSelection) :
                Wrap(TRUE, hasCm, getSelection)

removePermanentHighlightOccurrences ==
    \/ Unwrap(FALSE, FALSE, <<>>)
    \/ \E getSelection \in Selections(doc) :
         \E hasCm \in CmChoices(buildRegex(<<"=", "=">> \o trim(getSelection) \o <<"=", "=">>,
                                           TRUE, FALSE), doc, getSelection) :
             Unwrap(TRUE, hasCm, getSelection)

createTagForOccurrences ==
    /\ Len(doc) <= MaxDocLen
    /\ \/ Tag(FALSE, <<>>)
       \/ \E getSelection \in Selections(doc) : Tag(TRUE, getSelection)

removeTagFromOccurrences ==
    \/ Untag(FALSE, <<>>)
    \/ \E getSelection \in Selections(doc) : Untag(TRUE, getSelection)

\* SpecMark follows the commands on the document alone: the highlighter's
\* variables are held at rest (its reaction to an edit is the docChanged
\* update that Spec follows)
InitMark ==
    /\ doc \in SeqsUpTo(MarkChars, MaxDocLen)
    /\ notice = "none"
    /\ fault = FALSE
    /\ txLog = <<>>
    /\ last = NoInvocation
    /\ rt = NoRoundTrip
    /\ settings = DEFAULT_SETTINGS
    /\ selection = [from |-> 0, to |-> 0]
    /\ visibleRanges = <<>>
    /\ decorations = <<>>
    /\ lastEnabled = TRUE
    /\ lastAutoHL = FALSE
    /\ foundCount = 0
    /\ statusBarOccurrencesNumber = [exists |-> TRUE, text |-> <<>>, items |-> 1]
    /\ applied = <<>>
    /\ shared = TRUE
    /\ pass = TrackedFlags(DEFAULT_SETTINGS)
    /\ trigger = "none"
    /\ probe = NoProbe
    /\ passes = 1
    /\ keyboard = NoKeyboard

NextMark ==
    \/ setPermanentHighlightOccurrences
    \/ removePermanentHighlightOccurrences
    \/ createTagForOccurrences
    \/ removeTagFromOccurrences

SpecMark == InitMark /\ [][NextMark]_vars

(***************************************************************************)
(* The pattern builder on its own: SpecMatch draws a literal, a text and   *)
(* the two flags, builds the pattern and runs the exec loop of the         *)
(* commands over the text.                                                 *)
(***************************************************************************)
\* longest literal and longest text drawn
MaxLitLen == 2
MaxTextLen == 4

\* word characters in both cases, the wildcard and the escape character
MatchChars == {"a", "A", ".", "\\"}

Literals == SeqsUpTo(MatchChars, MaxLitLen) \ {<<>>}

\* const re = buildRegex(text, caseSensitive, wholeWord), then
\* while ((m = re.exec(doc))) matches.push(...)
RunMatcher ==
    /\ ~probe.ran
    /\ LET re    == buildRegex(probe.literal, probe.caseSensitive, probe.wholeWord)
           threw == Rejected(re.source)
       IN  probe' = [probe EXCEPT !.ran = TRUE,
                                  !.threw = threw,
                                  !.matches = IF threw THEN <<>>
                                              ELSE FindMatches(re, probe.text)]
    /\ UNCHANGED <<markVars, liveVars, configVars, keyboard>>

InitMatch ==
    /\ doc = <<>>
    /\ notice = "none"
    /\ fault = FALSE
    /\ txLog = <<>>
    /\ last = NoInvocation
    /\ rt = NoRoundTrip
    /\ applied = <<>>
    /\ settings = DEFAULT_SETTINGS
    /\ selection = [from |-> 0, to |-> 0]
    /\ visibleRanges = <<>>
    /\ decorations = <<>>
    /\ lastEnabled = TRUE
    /\ lastAutoHL = FALSE
    /\ foundCount = 0
    /\ statusBarOccurrencesNumber = [exists |-> TRUE, text |-> <<>>, items |-> 1]
    /\ shared = TRUE
    /\ pass = TrackedFlags(DEFAULT_SETTINGS)
    /\ trigger = "none"
    /\ passes = 1
    /\ keyboard = NoKeyboard
    /\ probe \in [text : SeqsUpTo(MatchChars, MaxTextLen), literal : Literals,
                  caseSensitive : BOOLEAN, wholeWord : BOOLEAN,
                  ran : {FALSE}, threw : {FALSE}, matches : {<<>>}]

NextMatch == RunMatcher

SpecMatch == InitMatch /\ [][NextMatch]_vars

\* C1: Wrap then Unwrap with the same selected literal leaves the document
\* text exactly equal to the text before the Wrap.
C1_WrapUnwrapRestores == rt.kind = "wrap" => doc = rt.orig

\* a round trip in which both commands edited a text that already held the
\* marker character
C1_Witness ==
    /\ rt.kind = "wrap"
    /\ txLog # <<>>
    /\ \E i \in 1..Len(rt.orig) : rt.orig[i] = "="

\* C2: Tag then Untag with the same selected literal leaves the document
\* text exactly equal to the text before the Tag.
C2_TagUntagRestores == rt.kind = "tag" => doc = rt.orig

\* C3: all edits of one invocation reach the host as a single transaction:
\* every document state the host saw during the last invocation is the
\* final one (none has some matches transformed and others not).
C3_SingleTransaction == \A i \in 1..Len(txLog) : txLog[i] = doc

\* the guidance notices of the four commands
GuidanceNotices ==
    {"No active editor", "Select some text first.", "Select text to un-highlight.",
     "Select one word to tag.", "Select the tagged word.", "No occurrences found.",
     "No highlighted occurrences found.", "No tagged occurrences found."}

\* lit occurs in text (as a whole word, when that is asked of a pure word)
Occurs(lit, text, wholeWord) ==
    \E i \in 0..(Len(text) - Len(lit)) :
        /\ Slice(text, i, i + Len(lit)) = lit
        /\ (wholeWord /\ IsPureWord(lit)) =>
               (AtBoundary(text, i) /\ AtBoundary(text, i + Len(lit)))

\* the last invocation's transform has something to work on
HasTarget(inv) ==
    CASE inv.cmd = "wrap"   -> Occurs(inv.sel, inv.before, FALSE)
      [] inv.cmd = "unwrap" -> Occurs(<<"=", "=">> \o inv.sel \o <<"=", "=">>, inv.before, FALSE)
      [] inv.cmd = "tag"    -> Occurs(inv.sel, inv.before, TRUE)
      [] inv.cmd = "untag"  -> Occurs(<<"#">> \o inv.sel, inv.before, FALSE)
      [] OTHER              -> FALSE

\* C4: a command invoked with no active view, with an empty or
\* whitespace-containing selection, or with zero matches aborts: the text is
\* unchanged, no transaction was dispatched, a guidance notice is shown and
\* no exception was raised.
C4_AbortsClean ==
    (last.cmd # "none" /\ (~last.view \/ last.sel = <<>> \/ HasSpace(last.sel)
                                       \/ ~HasTarget(last)))
        => /\ doc = last.before
           /\ txLog = <<>>
           /\ notice \in GuidanceNotices
           /\ ~fault

\* Tag aborted for want of a whole-word occurrence although the literal is
\* a substring of the text
C4_Witness ==
    /\ last.cmd = "tag"
    /\ last.view
    /\ last.sel # <<>>
    /\ ~HasSpace(last.sel)
    /\ Occurs(last.sel, last.before, FALSE)
    /\ notice = "No occurrences found."


(***************************************************************************)
(* Live highlighter: the ViewPlugin of highlightOccurrenceExtension.       *)
(***************************************************************************)
\* longest document the editor view of the live highlighter holds
MaxViewLen == 3
\* status-bar items counted before the count stops growing
MaxItems == 2

\* the alphabet of the documents the live highlighter is run on
LiveChars == {"a", " "}

\* Decoration.mark({ class: 'found-occurrence', priority: 100 })
selectedTextDecoration == [class |-> <<"found-occurrence">>, priority |-> 100]

\* Decoration.mark({ class: `occura-kw-${groupId}`, priority: 50 })
getGroupDecoration(groupId) == [class |-> <<"occura-kw-", groupId>>, priority |-> 50]

\* a dedupe step that lets the later source take the span over
AddMatchLastWins(acc, s, e, deco) ==
    IF <<s, e>> \in acc.addedSpans
    THEN [acc EXCEPT !.out = [i \in 1..Len(acc.out) |->
                                 IF acc.out[i].from = s /\ acc.out[i].to = e
                                 THEN [acc.out[i] EXCEPT !.deco = deco]
                                 ELSE acc.out[i]]]
    ELSE [out        |-> Append(acc.out, [from |-> s, to |-> e, deco |-> deco, startSide |-> 0]),
          addedSpans |-> acc.addedSpans \cup {<<s, e>>},
          foundCount |-> acc.foundCount + 1]

\* the body of the exec loop: skip a span already added, else push it and
\* count it; startSide is the mark's spec.startSide ?? 0, and no mark of the
\* plugin sets one
AddMatch(acc, s, e, deco) ==
    IF <<s, e>> \in acc.addedSpans THEN acc
    ELSE [out        |-> Append(acc.out, [from |-> s, to |-> e, deco |-> deco, startSide |-> 0]),
          addedSpans |-> acc.addedSpans \cup {<<s, e>>},
          foundCount |-> acc.foundCount + 1]

\* a window loop that takes the match index for the document offset
RECURSIVE CollectWindowRelative(_, _, _, _)
CollectWindowRelative(acc, ms, from, deco) ==
    IF ms = <<>> THEN acc
    ELSE LET s == Head(ms).index
             e == s + Head(ms).length
         IN  CollectWindowRelative(AddMatch(acc, s, e, deco), Tail(ms), from, deco)

\* the matches ms of one window starting at from, in order
RECURSIVE CollectWindow(_, _, _, _)
CollectWindow(acc, ms, from, deco) ==
    IF ms = <<>> THEN acc
    ELSE LET s == from + Head(ms).index
             e == s + Head(ms).length
         IN  CollectWindow(AddMatch(acc, s, e, deco), Tail(ms), from, deco)

\* a window loop that leaves the cursor of the expression where the last
\* match of the windows before ended
RECURSIVE collectCarryingCursor(_, _, _, _, _)
collectCarryingCursor(re, deco, acc, d, ranges) ==
    IF ranges = <<>> THEN acc
    ELSE LET from  == Head(ranges).from
             text  == Slice(d, from, Head(ranges).to)
             start == IF acc.out = <<>> THEN 0
                      ELSE Min({Len(text), acc.out[Len(acc.out)].to})
         IN  collectCarryingCursor(re, deco,
                                   CollectWindow(acc, ExecFrom(re, text, start), from, deco),
                                   d, Tail(ranges))

\* every window is sliced out of the document and scanned from lastIndex 0
RECURSIVE collectVisibleMatches(_, _, _, _, _)
collectVisibleMatches(re, deco, acc, d, ranges) ==
    IF ranges = <<>> THEN acc
    ELSE LET from == Head(ranges).from
             text == Slice(d, from, Head(ranges).to)
         IN  collectVisibleMatches(re, deco,
                                   CollectWindow(acc, ExecFrom(re, text, 0), from, deco),
                                   d, Tail(ranges))

\* `Occura found: ${message} ${foundCount} times`
StatusText(message, count) == <<"Occura found:", message, count, "times">>

updateStatusBar(item, s, message, count) ==
    IF item.exists /\ s.statusBarOccurrencesNumberEnabled
    THEN [item EXCEPT !.text = IF message # <<>> THEN StatusText(message, count) ELSE <<>>]
    ELSE item

\* a word list that keeps its blank words
WordsUnfiltered(group) == [i \in 1..Len(group.keywords) |-> trim(group.keywords[i])]

\* (group.keywords ?? []).map(w => w.trim()).filter(Boolean)
Words(group) ==
    SelectSeq([i \in 1..Len(group.keywords) |-> trim(group.keywords[i])],
              LAMBDA w : w # <<>>)

\* for (const w of words) ...
RECURSIVE CollectWords(_, _, _, _, _)
CollectWords(words, group, acc, d, ranges) ==
    IF words = <<>> THEN acc
    ELSE CollectWords(Tail(words), group,
                      collectVisibleMatches(buildRegex(Head(words), group.caseSensitive, TRUE),
                                            getGroupDecoration(group.id), acc, d, ranges),
                      d, ranges)

\* for (const group of plugin.settings.keywordGroups) ...
RECURSIVE CollectGroups(_, _, _, _)
CollectGroups(groups, acc, d, ranges) ==
    IF groups = <<>> THEN acc
    ELSE CollectGroups(Tail(groups),
                       IF Head(groups).enabled
                       THEN CollectWords(Words(Head(groups)), Head(groups), acc, d, ranges)
                       ELSE acc,
                       d, ranges)

\* a gate of the keyword block that looks at the keyword flag alone
KeywordsActiveAutoOnly(s) == s.autoKeywordsHighlightEnabled

\* the gate of the keyword block
KeywordsActive(s) == s.occuraPluginEnabled /\ s.autoKeywordsHighlightEnabled

\* a comparator that looks at the start offset alone
CompareFromOnly(a, b) == a.from - b.from

\* (a.from - b.from) || (a.startSide - b.startSide) || (a.to - b.to)
Compare(a, b) ==
    IF a.from # b.from THEN a.from - b.from
    ELSE IF a.startSide # b.startSide THEN a.startSide - b.startSide
    ELSE a.to - b.to

\* m put into the sorted list after everything that is not greater
RECURSIVE InsertSorted(_, _)
InsertSorted(sorted, m) ==
    IF sorted = <<>> THEN <<m>>
    ELSE IF Compare(m, Head(sorted)) < 0 THEN <<m>> \o sorted
         ELSE <<Head(sorted)>> \o InsertSorted(Tail(sorted), m)

RECURSIVE SortFrom(_, _)
SortFrom(sorted, rest) ==
    IF rest = <<>> THEN sorted ELSE SortFrom(InsertSorted(sorted, Head(rest)), Tail(rest))

\* the matches left in the order they were collected
SortMatchesSkipped(matches) == matches

\* matches.sort(...): Array.prototype.sort is stable
SortMatches(matches) == SortFrom(<<>>, matches)


\* const txt = state.doc.sliceString(sel.from, sel.to).trim()
SelectedText(d, sel) == trim(Slice(d, sel.from, sel.to))

\* !sel.empty, and then  txt && !/\s/.test(txt)
Usable(d, sel) ==
    /\ sel.from # sel.to
    /\ SelectedText(d, sel) # <<>>
    /\ ~HasSpace(SelectedText(d, sel))

\* buildDecorations on the view state (d, sel, ranges) under settings s, the
\* status-bar item being item: what it stores and what it leaves behind
buildDecorations(s, d, sel, ranges, item) ==
    LET acc0  == [out |-> <<>>, addedSpans |-> {}, foundCount |-> 0]
        txt   == SelectedText(d, sel)
        acc1  == IF s.occuraPluginEnabled /\ Usable(d, sel)
                 THEN collectVisibleMatches(buildRegex(txt, s.occuraCaseSensitive, FALSE),
                                            selectedTextDecoration, acc0, d, ranges)
                 ELSE acc0
        item1 == IF s.occuraPluginEnabled
                 THEN updateStatusBar(item, s, IF Usable(d, sel) THEN txt ELSE <<>>,
                                      acc1.foundCount)
                 ELSE item
        acc2  == IF KeywordsActive(s)
                 THEN CollectGroups(s.keywordGroups, acc1, d, ranges)
                 ELSE acc1
        matches == SortMatches(acc2.out)
    IN  [decorations |-> [i \in 1..Len(matches) |->
                            [from |-> matches[i].from, to |-> matches[i].to,
                             deco |-> matches[i].deco]],
         lastEnabled |-> s.occuraPluginEnabled,
         lastAutoHL  |-> s.autoKeywordsHighlightEnabled,
         foundCount  |-> acc2.foundCount,
         item        |-> item1]

\* this.decorations = this.buildDecorations(), with its side effects
Store(res) ==
    /\ decorations' = res.decorations
    /\ lastEnabled' = res.lastEnabled
    /\ lastAutoHL' = res.lastAutoHL
    /\ foundCount' = res.foundCount
    /\ passes' = 1

\* an update that recomputes whatever the notification says
updateAlways(u) ==
    LET res == buildDecorations(settings', doc', selection', visibleRanges',
                                statusBarOccurrencesNumber)
    IN  /\ Store(res)
        /\ statusBarOccurrencesNumber' = res.item
        /\ pass' = TrackedFlags(settings')

\* update(u), called by the host after a transaction on the view
update(u) ==
    IF \/ u.selectionSet
       \/ u.docChanged
       \/ u.viewportChanged
       \/ settings'.occuraPluginEnabled # lastEnabled
       \/ settings'.autoKeywordsHighlightEnabled # lastAutoHL
    THEN LET res == buildDecorations(settings', doc', selection', visibleRanges',
                                     statusBarOccurrencesNumber)
         IN  /\ Store(res)
             /\ statusBarOccurrencesNumber' = res.item
             /\ pass' = TrackedFlags(settings')
    ELSE /\ UNCHANGED <<decorations, lastEnabled, lastAutoHL, foundCount,
                         statusBarOccurrencesNumber, pass>>
         /\ passes' = 0

\* updateEditors: the compartment is reconfigured with a new extension, so a
\* new plugin instance is constructed on the view, and its constructor runs
\* buildDecorations; the result is the pass and the item as the pass left it
updateEditors(s) ==
    buildDecorations(s, doc, selection, visibleRanges, statusBarOccurrencesNumber)

\* updateIconElement: the status-bar item is created the first time an icon
\* is updated while the plugin is enabled
\* an icon update that adds a status-bar item whenever the plugin is enabled
updateIconElementAlways(s, item) ==
    IF s.occuraPluginEnabled
    THEN [exists |-> TRUE, text |-> <<>>, items |-> IF item.items < MaxItems THEN item.items + 1 ELSE item.items]
    ELSE item

updateIconElement(s, item) ==
    IF s.occuraPluginEnabled /\ ~item.exists
    THEN [exists |-> TRUE, text |-> <<>>, items |-> IF item.items < MaxItems THEN item.items + 1 ELSE item.items]
    ELSE item


\* the ranges a selection can be
Ranges(d) == UNION {{[from |-> f, to |-> t] : t \in f..Len(d)} : f \in 0..Len(d)}

\* the whole document as one window
WholeDoc(d) == <<[from |-> 0, to |-> Len(d)]>>

\* the window lists the host hands over: the whole document, or a window at
\* its start and one at its end; the host interface does not promise that
\* the two are disjoint
Windows(d) ==
    {WholeDoc(d)} \cup
    {<<[from |-> 0, to |-> i], [from |-> j, to |-> Len(d)]>> : i, j \in 1..(Len(d) - 1)}


\* the highlighter and the settings do not touch what the commands left
commandVars == <<notice, fault, txLog, last, rt, applied>>

\* the user moves or extends the selection: a transaction with selectionSet
SelectionChange ==
    \E r \in Ranges(doc) :
        /\ r # selection
        /\ selection' = r
        /\ UNCHANGED <<doc, settings, visibleRanges, commandVars, shared, trigger, probe, keyboard>>
        /\ update([selectionSet |-> TRUE, docChanged |-> FALSE, viewportChanged |-> FALSE])

\* the host scrolls or folds: a view update with viewportChanged
ViewportChange ==
    \E w \in Windows(doc) :
        /\ w # visibleRanges
        /\ visibleRanges' = w
        /\ UNCHANGED <<doc, settings, selection, commandVars, shared, trigger, probe, keyboard>>
        /\ update([selectionSet |-> FALSE, docChanged |-> FALSE, viewportChanged |-> TRUE])

\* the user types a character over the selection: a transaction with
\* docChanged that leaves the cursor behind the character; the host shows the
\* whole of the new document
DocChange ==
    \E c \in LiveChars :
        LET d2 == replaceRange(doc, <<c>>, selection.from, selection.to)
        IN  /\ Len(d2) <= MaxViewLen
            /\ doc' = d2
            /\ selection' = [from |-> selection.from + 1, to |-> selection.from + 1]
            /\ visibleRanges' = WholeDoc(d2)
            /\ UNCHANGED <<settings, commandVars, shared, trigger, probe, keyboard>>
            /\ update([selectionSet |-> TRUE, docChanged |-> TRUE,
                       viewportChanged |-> visibleRanges' # visibleRanges])

\* the layout-change handler: addIconsToAllLeaves replaces the icon of the
\* one open leaf and addTitleBarIcon updates the new icon
addIconsToAllLeaves ==
    /\ statusBarOccurrencesNumber' = updateIconElement(settings, statusBarOccurrencesNumber)
    /\ UNCHANGED <<doc, settings, selection, visibleRanges, decorations, lastEnabled,
                   lastAutoHL, foundCount, passes, commandVars, configVars, probe, keyboard>>

\* a toggle that switches keyword highlighting along with the plugin
toggleHighlightingBoth ==
    LET s2  == [settings EXCEPT !.occuraPluginEnabled = ~@,
                                !.autoKeywordsHighlightEnabled = ~@]
        res == updateEditors(s2)
    IN  /\ settings' = s2
        /\ Store(res)
        /\ pass' = TrackedFlags(s2)
        /\ statusBarOccurrencesNumber' = updateIconElement(s2, res.item)
        /\ UNCHANGED <<doc, selection, visibleRanges, commandVars, shared, trigger, probe, keyboard>>

\* toggleHighlighting: flip the flag, updateEditors, then
\* updateAllTitleBarIcons (one leaf, hence one icon, is open)
toggleHighlighting ==
    LET s2  == [settings EXCEPT !.occuraPluginEnabled = ~@]
        res == updateEditors(s2)
    IN  /\ settings' = s2
        /\ Store(res)
        /\ pass' = TrackedFlags(s2)
        /\ statusBarOccurrencesNumber' = updateIconElement(s2, res.item)
        /\ UNCHANGED <<doc, selection, visibleRanges, commandVars, shared, trigger, probe, keyboard>>

\* toggleKeywordHighlighting: flip the flag, updateEditors
toggleKeywordHighlighting ==
    LET s2  == [settings EXCEPT !.autoKeywordsHighlightEnabled = ~@]
        res == updateEditors(s2)
    IN  /\ settings' = s2
        /\ Store(res)
        /\ pass' = TrackedFlags(s2)
        /\ statusBarOccurrencesNumber' = res.item
        /\ UNCHANGED <<doc, selection, visibleRanges, commandVars, shared, trigger, probe, keyboard>>

\* the toggle "Display the number of occurrences" of the settings tab
setStatusBarOccurrencesNumberEnabled ==
    LET s2  == [settings EXCEPT !.statusBarOccurrencesNumberEnabled = ~@]
        res == updateEditors(s2)
    IN  /\ settings' = s2
        /\ Store(res)
        /\ pass' = TrackedFlags(s2)
        /\ statusBarOccurrencesNumber' = res.item
        /\ UNCHANGED <<doc, selection, visibleRanges, commandVars, shared, trigger, probe, keyboard>>

\* the state after onload with one Markdown leaf open: the settings are
\* loaded, the extension is registered and its plugin constructed on the
\* view (cursor at the start, whole document shown, no status-bar item yet),
\* then addIconsToAllLeaves updates the leaf's icon
Init ==
    /\ doc \in SeqsUpTo(LiveChars, MaxViewLen)
    /\ notice = "none"
    /\ fault = FALSE
    /\ txLog = <<>>
    /\ last = NoInvocation
    /\ rt = NoRoundTrip
    /\ settings \in loadSettings
    /\ selection = [from |-> 0, to |-> 0]
    /\ visibleRanges = WholeDoc(doc)
    /\ LET res == buildDecorations(settings, doc, selection, visibleRanges,
                                   [exists |-> FALSE, text |-> <<>>, items |-> 0])
       IN  /\ decorations = res.decorations
           /\ lastEnabled = res.lastEnabled
           /\ lastAutoHL = res.lastAutoHL
           /\ foundCount = res.foundCount
           /\ statusBarOccurrencesNumber = updateIconElement(settings, res.item)
    /\ applied = <<>>
    /\ shared = (settings = DEFAULT_SETTINGS)
    /\ pass = TrackedFlags(settings)
    /\ trigger = "none"
    /\ probe = NoProbe
    /\ passes = 1
    /\ keyboard = NoKeyboard

Next ==
    \/ SelectionChange
    \/ ViewportChange
    \/ DocChange
    \/ toggleHighlighting
    \/ toggleKeywordHighlighting
    \/ setStatusBarOccurrencesNumberEnabled
    \/ addIconsToAllLeaves

Spec == Init /\ [][Next]_vars

(***************************************************************************)
(* The command callbacks registered in onload.  SpecCommands follows the   *)
(* four Permanent-Mark commands as the command palette runs them, with the *)
(* plugin switched on and off by toggleHighlighting in between; as in      *)
(* SpecMark no window of the document is shown to the highlighter.         *)
(***************************************************************************)
\* new Notice('Please enable Occura'): the command function is not entered
PleaseEnable(cmd) ==
    Finish(Outcome(doc, "Please enable Occura", FALSE, <<>>),
           [NoInvocation EXCEPT !.cmd = cmd, !.before = doc], NoRoundTrip)

\* a callback that enters the command function whatever the flag says
CallbackUnguarded(cmd, function) == function

\* callback: () => { if (this.settings.occuraPluginEnabled) { ... } else { ... } }
Callback(cmd, function) ==
    IF settings.occuraPluginEnabled THEN function ELSE PleaseEnable(cmd)

SetPermanentHighlightCommand == Callback("wrap", setPermanentHighlightOccurrences)

RemovePermanentHighlightCommand == Callback("unwrap", removePermanentHighlightOccurrences)

CreateTagCommand == Callback("tag", createTagForOccurrences)

RemoveTagCommand == Callback("untag", removeTagFromOccurrences)


\* onload with no saved data or with SavedDisabled, on a document whose
\* windows are not followed
InitCommands ==
    /\ doc \in SeqsUpTo(MarkChars, MaxDocLen)
    /\ notice = "none"
    /\ fault = FALSE
    /\ txLog = <<>>
    /\ last = NoInvocation
    /\ rt = NoRoundTrip
    /\ applied = <<>>
    /\ settings \in {DEFAULT_SETTINGS, SavedDisabled}
    /\ selection = [from |-> 0, to |-> 0]
    /\ visibleRanges = <<>>
    /\ LET res == buildDecorations(settings, doc, selection, visibleRanges,
                                   [exists |-> FALSE, text |-> <<>>, items |-> 0])
       IN  /\ decorations = res.decorations
           /\ lastEnabled = res.lastEnabled
           /\ lastAutoHL = res.lastAutoHL
           /\ foundCount = res.foundCount
           /\ statusBarOccurrencesNumber = updateIconElement(settings, res.item)
    /\ shared = (settings = DEFAULT_SETTINGS)
    /\ pass = TrackedFlags(settings)
    /\ trigger = "none"
    /\ passes = 1
    /\ keyboard = NoKeyboard
    /\ probe = NoProbe

NextCommands ==
    \/ SetPermanentHighlightCommand
    \/ RemovePermanentHighlightCommand
    \/ CreateTagCommand
    \/ RemoveTagCommand
    \/ toggleHighlighting

SpecCommands == InitCommands /\ [][NextCommands]_vars

(***************************************************************************)
(* The toggle hotkey.  SpecHotkey follows the Hotkey field of the settings *)
(* tab, key presses in the window, onunload and a later onload.  A string  *)
(* is the sequence of its pieces: the character "+" is a piece of its own, *)
(* a run of other characters (a key or modifier name) is one piece.        *)
(***************************************************************************)
\* key handler functions made before hotkey changes and reloads stop
MaxHandlers == 3

\* values of KeyboardEvent.key: a letter, an arrow key, the plus key and a
\* modifier key
Keys == {"a", "ArrowUp", "+", "Control"}

\* the keydown events: the Control key is down in the event of its own press
KeyboardEvents ==
    {e \in [key : Keys, ctrlKey : BOOLEAN, metaKey : BOOLEAN,
            shiftKey : BOOLEAN, altKey : BOOLEAN] : e.key = "Control" => e.ctrlKey}

\* String.prototype.toUpperCase on a key or modifier name
nameToUpperCase(k) ==
    CASE k = "a"       -> "A"
      [] k = "ArrowUp" -> "ARROWUP"
      [] k = "Control" -> "CONTROL"
      [] k = "Mod"     -> "MOD"
      [] k = "Shift"   -> "SHIFT"
      [] k = "Alt"     -> "ALT"
      [] OTHER         -> k

\* String.prototype.toLowerCase on a key or modifier name
nameToLowerCase(k) ==
    CASE k = "A"       -> "a"
      [] k = "ARROWUP" -> "arrowup"
      [] k = "Mod"     -> "mod"
      [] k = "Shift"   -> "shift"
      [] k = "Alt"     -> "alt"
      [] OTHER         -> k

\* keys.join('+')
RECURSIVE join(_)
join(keys) ==
    IF keys = <<>> THEN <<>>
    ELSE IF Len(keys) = 1 THEN <<keys[1]>>
    ELSE <<keys[1], "+">> \o join(Tail(keys))

\* captureHotkey(event)
captureHotkey(event) ==
    LET k    == nameToUpperCase(event.key)
        keys == (IF event.ctrlKey \/ event.metaKey THEN <<"Mod">> ELSE <<>>)
                   \o (IF event.shiftKey THEN <<"Shift">> ELSE <<>>)
                   \o (IF event.altKey THEN <<"Alt">> ELSE <<>>)
                   \o (IF k \notin {"CONTROL", "SHIFT", "ALT", "META"} THEN <<k>> ELSE <<>>)
    IN  join(keys)

\* hotkeyString.split('+'): the parts between the "+" characters, an empty
\* part where two of them meet or where one begins or ends the string
RECURSIVE splitFrom(_, _, _)
splitFrom(str, part, parts) ==
    IF str = <<>> THEN Append(parts, part)
    ELSE IF Head(str) = "+" THEN splitFrom(Tail(str), <<>>, Append(parts, part))
    ELSE splitFrom(Tail(str), Append(part, Head(str)), parts)

split(str) == splitFrom(str, <<>>, <<>>)

\* parseHotkeyString(hotkeyString), on macOS or on another platform
parseHotkeyString(hotkeyString, isMacOS) ==
    LET all   == split(hotkeyString)
        popped == all[Len(all)]
        key   == [i \in 1..Len(popped) |-> nameToUpperCase(popped[i])]
        parts == {[i \in 1..Len(all[p]) |-> nameToLowerCase(all[p][i])] : p \in 1..(Len(all) - 1)}
    IN  [key |-> key,
         modifiers |->
            [ctrlKey  |-> \/ <<"ctrl">> \in parts
                          \/ (<<"mod">> \in parts /\ ~isMacOS),
             shiftKey |-> <<"shift">> \in parts,
             altKey   |-> <<"alt">> \in parts \/ <<"option">> \in parts,
             metaKey  |-> \/ <<"cmd">> \in parts
                          \/ <<"meta">> \in parts
                          \/ (<<"mod">> \in parts /\ isMacOS)]]

\* evtKey.replace('ARROW', '')
normalizeKey(evtKey) == IF evtKey = "ARROWUP" THEN "UP" ELSE evtKey

\* the condition under which this.keyHandler, made for hotkey, toggles
Handles(hotkey, evt) ==
    LET evtKey        == nameToUpperCase(evt.key)
        normalizedKey == normalizeKey(evtKey)
        modifiersMatch ==
            /\ evt.ctrlKey = hotkey.modifiers.ctrlKey
            /\ evt.shiftKey = hotkey.modifiers.shiftKey
            /\ evt.altKey = hotkey.modifiers.altKey
            /\ evt.metaKey = hotkey.modifiers.metaKey
    IN  modifiersMatch /\ <<normalizedKey>> = hotkey.key

\* a change of handler that leaves the old listener on the window
updateKeyHandlerKeeping(kb) ==
    LET id == kb.handlers + 1
    IN  [kb EXCEPT !.listeners = @ \cup {[id |-> id,
                                          hotkey |-> parseHotkeyString(kb.stored, kb.isMacOS)]},
                   !.keyHandler = id,
                   !.handlers = id]

\* updateKeyHandler: the old listener is removed, a new function is made for
\* the stored string and added to the window
updateKeyHandler(kb) ==
    LET kept == IF kb.keyHandler # 0
                THEN {l \in kb.listeners : l.id # kb.keyHandler}
                ELSE kb.listeners
        id   == kb.handlers + 1
    IN  [kb EXCEPT !.listeners = kept \cup {[id |-> id,
                                             hotkey |-> parseHotkeyString(kb.stored, kb.isMacOS)]},
                   !.keyHandler = id,
                   !.handlers = id]

\* the listeners of the window that toggle on evt
Firing(evt) == {l \in keyboard.listeners : Handles(l.hotkey, evt)}

\* n runs of toggleHighlighting, one for each listener that fires
RECURSIVE Toggled(_, _, _)
Toggled(n, s, res) ==
    IF n = 0 THEN [s |-> s, res |-> res]
    ELSE LET s2 == [s EXCEPT !.occuraPluginEnabled = ~@]
             r2 == buildDecorations(s2, doc, selection, visibleRanges, res.item)
         IN  Toggled(n - 1, s2, [r2 EXCEPT !.item = updateIconElement(s2, r2.item)])

\* a keydown event evt reaches the listeners of the window
Dispatch(evt) ==
    LET n   == Cardinality(Firing(evt))
        now == [decorations |-> decorations, lastEnabled |-> lastEnabled,
                lastAutoHL |-> lastAutoHL, foundCount |-> foundCount,
                item |-> statusBarOccurrencesNumber]
        end == Toggled(n, settings, now)
    IN  /\ keyboard' = [keyboard EXCEPT !.pressed = evt, !.fired = n,
                                        !.before = settings.occuraPluginEnabled]
        /\ settings' = end.s
        /\ decorations' = end.res.decorations
        /\ lastEnabled' = end.res.lastEnabled
        /\ lastAutoHL' = end.res.lastAutoHL
        /\ foundCount' = end.res.foundCount
        /\ statusBarOccurrencesNumber' = end.res.item
        /\ passes' = IF n = 0 THEN passes ELSE 1
        /\ pass' = TrackedFlags(end.s)
        /\ UNCHANGED <<doc, selection, visibleRanges, commandVars, shared, trigger, probe>>

\* a key is pressed while the focus is outside the Hotkey field
KeyPress == \E evt \in KeyboardEvents : Dispatch(evt)

\* a key is pressed in the Hotkey field: the listeners of the window are
\* capturing ones and run first, and one that fires stops the event; an
\* event that reaches the field is captured, stored and installed
HotkeyField ==
    \E evt \in KeyboardEvents :
        /\ keyboard.loaded
        /\ IF Firing(evt) # {}
           THEN Dispatch(evt)
           ELSE /\ keyboard.handlers < MaxHandlers
                /\ keyboard' = updateKeyHandler([keyboard EXCEPT !.stored = captureHotkey(evt),
                                                                 !.pressed = <<>>,
                                                                 !.fired = 0])
                /\ UNCHANGED <<markVars, liveVars, configVars, probe>>

\* onunload: removeEventListener('keydown', this.keyHandler, true)
onunload ==
    /\ keyboard.loaded
    /\ keyboard' = [keyboard EXCEPT !.listeners = {l \in @ : l.id # keyboard.keyHandler},
                                    !.loaded = FALSE,
                                    !.pressed = <<>>,
                                    !.fired = 0]
    /\ UNCHANGED <<markVars, liveVars, configVars, probe>>

\* onload of a new plugin object: its keyHandler field is unset, the saved
\* hotkey string is loaded and updateKeyHandler is called
onload ==
    /\ ~keyboard.loaded
    /\ keyboard.handlers < MaxHandlers
    /\ keyboard' = updateKeyHandler([keyboard EXCEPT !.keyHandler = 0,
                                                     !.loaded = TRUE,
                                                     !.pressed = <<>>,
                                                     !.fired = 0])
    /\ UNCHANGED <<markVars, liveVars, configVars, probe>>

\* the plugin loaded with no saved data, on macOS or on another platform
InitHotkey ==
    /\ doc = <<"a">>
    /\ notice = "none"
    /\ fault = FALSE
    /\ txLog = <<>>
    /\ last = NoInvocation
    /\ rt = NoRoundTrip
    /\ applied = <<>>
    /\ settings = DEFAULT_SETTINGS
    /\ selection = [from |-> 0, to |-> 0]
    /\ visibleRanges = WholeDoc(doc)
    /\ LET res == buildDecorations(settings, doc, selection, visibleRanges,
                                   [exists |-> FALSE, text |-> <<>>, items |-> 0])
       IN  /\ decorations = res.decorations
           /\ lastEnabled = res.lastEnabled
           /\ lastAutoHL = res.lastAutoHL
           /\ foundCount = res.foundCount
           /\ statusBarOccurrencesNumber = updateIconElement(settings, res.item)
    /\ shared = TRUE
    /\ pass = TrackedFlags(settings)
    /\ trigger = "none"
    /\ probe = NoProbe
    /\ passes = 1
    /\ \E mac \in BOOLEAN :
          keyboard = updateKeyHandler([NoKeyboard EXCEPT !.isMacOS = mac, !.loaded = TRUE])

NextHotkey ==
    \/ KeyPress
    \/ HotkeyField
    \/ onunload
    \/ onload

SpecHotkey == InitHotkey /\ [][NextHotkey]_vars

(***************************************************************************)
(* The settings tab.  SpecConfig follows the operations of the tab and of  *)
(* the toggle commands on one open document, together with the update      *)
(* notifications of the host; trigger names the kind of the last one.      *)
(***************************************************************************)
\* most classes the tab holds and most words of a class
MaxGroups == 1
MaxWords == 1

\* the document that is open, and the selections the user makes in it: the
\* cursor at the start, or the last word
ConfigDoc == <<"a", "a", " ", "a">>
ConfigSelections == {[from |-> 0, to |-> 0], [from |-> Len(ConfigDoc) - 1, to |-> Len(ConfigDoc)]}

\* what the user types into a word row, and what a file of words holds
KeywordTexts == {<<"a">>, <<"a", "a">>}
Tokens == SeqsUpTo(KeywordTexts, MaxWords)

\* the ids crypto.randomUUID() hands out
ClassIds == {"c1", "c2"}

\* saved data of an earlier session with one class
SavedClass ==
    [DEFAULT_SETTINGS EXCEPT
        !.autoKeywordsHighlightEnabled = TRUE,
        !.occuraCaseSensitive = TRUE,
        !.keywordGroups = <<KeywordGroup("g1", <<<<"a">>>>, TRUE, FALSE)>>]

\* the contents of the array DEFAULT_SETTINGS.keywordGroups: the array is
\* created empty, and it is settings.keywordGroups itself once
\* Object.assign has copied the reference
DefaultKeywordGroups == IF shared THEN settings.keywordGroups ELSE <<>>

\* a handler that stores s2, saves and calls updateEditors, and then, when
\* icons is set, updateAllTitleBarIcons
Reconfigure(s2, icons, kind) ==
    LET res == updateEditors(s2)
    IN  /\ settings' = s2
        /\ Store(res)
        /\ pass' = TrackedFlags(s2)
        /\ statusBarOccurrencesNumber' =
              IF icons THEN updateIconElement(s2, res.item) ELSE res.item
        /\ trigger' = kind
        /\ UNCHANGED <<doc, selection, visibleRanges, commandVars, probe, keyboard>>

\* a handler that stores s2 and saves (and at most redraws the tab)
SaveOnly(s2, kind) ==
    /\ settings' = s2
    /\ trigger' = kind
    /\ UNCHANGED <<doc, selection, visibleRanges, decorations, lastEnabled, lastAutoHL,
                   foundCount, statusBarOccurrencesNumber, pass, commandVars, probe,
                   keyboard>>
    /\ passes' = 0

\* an update notification of the host: the user moved the selection, or a
\* transaction or view update touched neither selection, text nor viewport
HostUpdate ==
    \E r \in ConfigSelections :
        /\ selection' = r
        /\ trigger' = "update"
        /\ UNCHANGED <<doc, settings, visibleRanges, commandVars, shared, probe, keyboard>>
        /\ update([selectionSet |-> r # selection, docChanged |-> FALSE,
                   viewportChanged |-> FALSE])

\* the group at place k of settings.keywordGroups, changed to g
WithGroup(k, g) == [settings EXCEPT !.keywordGroups[k] = g]

\* a sequence without its element at place i: splice(i, 1)
Splice(seq, i) == SubSeq(seq, 1, i - 1) \o SubSeq(seq, i + 1, Len(seq))

\* the toggle-highlight-occurrences command, the hotkey and the title-bar icon
ToggleEnabled ==
    /\ Reconfigure([settings EXCEPT !.occuraPluginEnabled = ~@], TRUE, "flag")
    /\ UNCHANGED shared

\* the toggle-keyword-highlighting command and the toggle "Automatic
\* keywords highlighting"
ToggleAutoKeywords ==
    /\ Reconfigure([settings EXCEPT !.autoKeywordsHighlightEnabled = ~@], FALSE, "flag")
    /\ UNCHANGED shared

\* the toggle "Case sensitive (occurrences)"
ToggleCaseSensitive ==
    /\ Reconfigure([settings EXCEPT !.occuraCaseSensitive = ~@], FALSE, "flag")
    /\ UNCHANGED shared

\* the toggle "Enabled" of a class
ToggleGroupEnabled ==
    \E k \in 1..Len(settings.keywordGroups) :
        /\ Reconfigure(WithGroup(k, [settings.keywordGroups[k] EXCEPT !.enabled = ~@]),
                       FALSE, "flag")
        /\ UNCHANGED shared

\* the toggle "Case sensitive" of a class
ToggleGroupCaseSensitive ==
    \E k \in 1..Len(settings.keywordGroups) :
        /\ Reconfigure(WithGroup(k, [settings.keywordGroups[k] EXCEPT !.caseSensitive = ~@]),
                       FALSE, "flag")
        /\ UNCHANGED shared

\* the button "Add Class": push a new class, save, redraw the tab
AddClass ==
    /\ Len(settings.keywordGroups) < MaxGroups
    /\ \E id \in ClassIds \ {settings.keywordGroups[k].id : k \in 1..Len(settings.keywordGroups)} :
          SaveOnly([settings EXCEPT !.keywordGroups =
                        Append(@, KeywordGroup(id, <<>>, TRUE, FALSE))], "words")
    /\ UNCHANGED shared

\* the trash button of a class, confirmed
DeleteClass ==
    \E k \in 1..Len(settings.keywordGroups) :
        /\ SaveOnly([settings EXCEPT !.keywordGroups = Splice(@, k)], "words")
        /\ UNCHANGED shared

\* the button "Add Word" of a class: push an empty word, redraw the tab
AddWord ==
    \E k \in 1..Len(settings.keywordGroups) :
        /\ Len(settings.keywordGroups[k].keywords) < MaxWords
        /\ SaveOnly(WithGroup(k, [settings.keywordGroups[k] EXCEPT
                                     !.keywords = Append(@, <<>>)]), "words")
        /\ UNCHANGED shared

\* typing into a word row: group.keywords[idx] = v, save
EditWord ==
    \E k \in 1..Len(settings.keywordGroups) :
        \E idx \in 1..Len(settings.keywordGroups[k].keywords) :
            \E v \in KeywordTexts \cup {<<>>} :
                /\ v # settings.keywordGroups[k].keywords[idx]
                /\ SaveOnly(WithGroup(k, [settings.keywordGroups[k] EXCEPT
                                             !.keywords[idx] = v]), "words")
                /\ UNCHANGED shared

\* the remove button of a word row: splice, save, redraw the tab
RemoveWord ==
    \E k \in 1..Len(settings.keywordGroups) :
        \E idx \in 1..Len(settings.keywordGroups[k].keywords) :
            /\ SaveOnly(WithGroup(k, [settings.keywordGroups[k] EXCEPT
                                         !.keywords = Splice(@, idx)]), "words")
            /\ UNCHANGED shared

\* the button "Import Words" of a class: the tokens of the file replace the
\* word list
ImportWords ==
    \E k \in 1..Len(settings.keywordGroups) :
        \E tokens \in Tokens :
            /\ SaveOnly(WithGroup(k, [settings.keywordGroups[k] EXCEPT
                                         !.keywords = tokens]), "words")
            /\ UNCHANGED shared

\* the button "Reset": Object.assign(this.plugin.settings, DEFAULT_SETTINGS)
\* copies every field of DEFAULT_SETTINGS, for keywordGroups the reference
\* to its array; save, redraw the tab
Reset ==
    /\ SaveOnly([DEFAULT_SETTINGS EXCEPT !.keywordGroups = DefaultKeywordGroups], "reset")
    /\ shared' = TRUE

\* onload as in Init, on ConfigDoc, with no saved data or with SavedClass
InitConfig ==
    /\ doc = ConfigDoc
    /\ notice = "none"
    /\ fault = FALSE
    /\ txLog = <<>>
    /\ last = NoInvocation
    /\ rt = NoRoundTrip
    /\ applied = <<>>
    /\ settings \in {DEFAULT_SETTINGS, SavedClass}
    /\ selection = [from |-> 0, to |-> 0]
    /\ visibleRanges = WholeDoc(doc)
    /\ LET res == buildDecorations(settings, doc, selection, visibleRanges,
                                   [exists |-> FALSE, text |-> <<>>, items |-> 0])
       IN  /\ decorations = res.decorations
           /\ lastEnabled = res.lastEnabled
           /\ lastAutoHL = res.lastAutoHL
           /\ foundCount = res.foundCount
           /\ statusBarOccurrencesNumber = updateIconElement(settings, res.item)
    /\ shared = (settings = DEFAULT_SETTINGS)
    /\ pass = TrackedFlags(settings)
    /\ trigger = "none"
    /\ probe = NoProbe
    /\ passes = 1
    /\ keyboard = NoKeyboard

NextConfig ==
    \/ HostUpdate
    \/ ToggleEnabled
    \/ ToggleAutoKeywords
    \/ ToggleCaseSensitive
    \/ ToggleGroupEnabled
    \/ ToggleGroupCaseSensitive
    \/ AddClass
    \/ DeleteClass
    \/ AddWord
    \/ EditWord
    \/ RemoveWord
    \/ ImportWords
    \/ Reset

SpecConfig == InitConfig /\ [][NextConfig]_vars


(***************************************************************************)
(* Properties of the live highlighter.  After every step the stored        *)
(* DecorationSet is the result of a recomputation on the current view      *)
(* state: every action of Spec ends in one.                                *)
(***************************************************************************)
Overlap(a, b) == ~(a.to <= b.from \/ b.to <= a.from)

IsSelectionSpan(m) == m.deco = selectedTextDecoration

\* the windows are pairwise disjoint
WindowsDisjoint ==
    \A i, j \in 1..Len(visibleRanges) :
        i < j => visibleRanges[i].to <= visibleRanges[j].from

\* the (start, end) pairs a matcher finds in the visible windows on its own
SpansOf(re) ==
    LET found == collectVisibleMatches(re, selectedTextDecoration,
                                       [out |-> <<>>, addedSpans |-> {}, foundCount |-> 0],
                                       doc, visibleRanges).out
    IN  {<<found[i].from, found[i].to>> : i \in 1..Len(found)}

\* the spans the selection source matches in the current state
SelectionSpans ==
    IF settings.occuraPluginEnabled /\ Usable(doc, selection)
    THEN SpansOf(buildRegex(SelectedText(doc, selection), settings.occuraCaseSensitive, FALSE))
    ELSE {}

\* the spans the k-th declared keyword group matches in the current state
GroupSpans(k) ==
    LET group == settings.keywordGroups[k]
        words == Words(group)
    IN  IF KeywordsActive(settings) /\ group.enabled
        THEN UNION {SpansOf(buildRegex(words[i], group.caseSensitive, TRUE)) :
                    i \in 1..Len(words)}
        ELSE {}

GroupsMatching(span) == {k \in 1..Len(settings.keywordGroups) : span \in GroupSpans(k)}

\* C5: the spans a recomputation adds to the range builder are in ascending
\* order of start offset, and no two of them have the same (start, end).
C5_SortedNoDuplicates ==
    \A i, j \in 1..Len(decorations) :
        i < j => /\ decorations[i].from <= decorations[j].from
                 /\ <<decorations[i].from, decorations[i].to>>
                        # <<decorations[j].from, decorations[j].to>>

\* two windows are shown and a keyword span, collected after the selection
\* spans, stands before a selection span
C5_Witness ==
    /\ Len(visibleRanges) = 2
    /\ \E i, j \in 1..Len(decorations) :
          /\ i < j
          /\ ~IsSelectionSpan(decorations[i])
          /\ IsSelectionSpan(decorations[j])
          /\ decorations[i].from < decorations[j].from

\* C6 as stated: no two spans of the DecorationSet overlap.
C6_NoOverlap ==
    \A i, j \in 1..Len(decorations) :
        i # j => ~Overlap(decorations[i], decorations[j])

\* C6: while the visible windows are pairwise disjoint, the selection-source
\* spans of the DecorationSet do not overlap one another.
C6_SelectionSpansDisjoint ==
    WindowsDisjoint =>
        \A i, j \in 1..Len(decorations) :
            (i # j /\ IsSelectionSpan(decorations[i]) /\ IsSelectionSpan(decorations[j]))
                => ~Overlap(decorations[i], decorations[j])

\* disjoint windows, two selection spans, and a keyword span over both
C6_Witness ==
    /\ WindowsDisjoint
    /\ \E i, j, k \in 1..Len(decorations) :
          /\ i # j
          /\ IsSelectionSpan(decorations[i])
          /\ IsSelectionSpan(decorations[j])
          /\ ~IsSelectionSpan(decorations[k])
          /\ Overlap(decorations[k], decorations[i])
          /\ Overlap(decorations[k], decorations[j])

\* C7: a span matched by two or more sources is in the DecorationSet exactly
\* once, with the selection style if the selection matched it and otherwise
\* with the style of the first declared enabled group that matched it.
C7_PrecedenceOnTies ==
    \A span \in (SelectionSpans \cup UNION {GroupSpans(k) : k \in 1..Len(settings.keywordGroups)}) :
        LET groups == GroupsMatching(span)
            at     == {i \in 1..Len(decorations) :
                          <<decorations[i].from, decorations[i].to>> = span}
        IN  (Cardinality(groups) + (IF span \in SelectionSpans THEN 1 ELSE 0) >= 2)
                => /\ Cardinality(at) = 1
                   /\ \A i \in at :
                         decorations[i].deco =
                             IF span \in SelectionSpans THEN selectedTextDecoration
                             ELSE getGroupDecoration(settings.keywordGroups[Min(groups)].id)

\* a span matched by the selection and by two keyword groups
C7_Witness ==
    \E span \in SelectionSpans : Cardinality(GroupsMatching(span)) >= 2

\* a span matched by two keyword groups and not by the selection
C7_GroupsWitness ==
    \E k \in 1..Len(settings.keywordGroups) :
        \E span \in GroupSpans(k) :
            /\ span \notin SelectionSpans
            /\ Cardinality(GroupsMatching(span)) >= 2


\* a keyword of an enabled group occurs in a visible window
KeywordInView ==
    \E k \in 1..Len(settings.keywordGroups) :
        LET group == settings.keywordGroups[k]
            words == Words(group)
        IN  /\ group.enabled
            /\ \E i \in 1..Len(words) :
                   SpansOf(buildRegex(words[i], group.caseSensitive, TRUE)) # {}

\* C8 as stated: with highlighting disabled, or without a usable selection,
\* the DecorationSet is empty.
C8_EmptyWithoutSelection ==
    (~settings.occuraPluginEnabled \/ ~Usable(doc, selection)) => decorations = <<>>

\* C8: with highlighting disabled the DecorationSet is empty; without a
\* usable selection it holds no selection-style span.
C8_DisabledEmpty ==
    /\ ~settings.occuraPluginEnabled => decorations = <<>>
    /\ ~Usable(doc, selection) =>
           \A i \in 1..Len(decorations) : ~IsSelectionSpan(decorations[i])

\* disabled, although a word is selected, keyword highlighting is on and a
\* keyword is in view
C8_Witness ==
    /\ ~settings.occuraPluginEnabled
    /\ settings.autoKeywordsHighlightEnabled
    /\ Usable(doc, selection)
    /\ KeywordInView
    /\ decorations = <<>>

\* enabled, nothing usable selected, keyword spans only
C8_KeywordsWitness ==
    /\ settings.occuraPluginEnabled
    /\ ~Usable(doc, selection)
    /\ selection.from # selection.to
    /\ decorations # <<>>

\* C9: with highlighting disabled, or without a usable selection, the
\* status text is empty.
C9_StatusCleared ==
    (~settings.occuraPluginEnabled \/ ~Usable(doc, selection))
        => statusBarOccurrencesNumber.text = <<>>

\* C10: with highlighting and the status display enabled and a usable
\* selection, the status text names the selected text and the number of
\* selection-style spans of the DecorationSet.
C10_StatusNamesCount ==
    (/\ settings.occuraPluginEnabled
     /\ settings.statusBarOccurrencesNumberEnabled
     /\ Usable(doc, selection))
        => statusBarOccurrencesNumber.text =
               StatusText(SelectedText(doc, selection),
                          Cardinality({i \in 1..Len(decorations) :
                                          IsSelectionSpan(decorations[i])}))


\* a text with every letter in upper case
Fold(text) == [i \in 1..Len(text) |-> toUpperCase(text[i])]

\* the words of the keyword group whose style a span carries
WordsStyled(m) ==
    UNION {{Fold(Words(settings.keywordGroups[k])[i]) :
                i \in 1..Len(Words(settings.keywordGroups[k]))} :
           k \in {g \in 1..Len(settings.keywordGroups) :
                     getGroupDecoration(settings.keywordGroups[g].id) = m.deco}}

\* C12: every span of the DecorationSet is non-empty and lies inside one of
\* the visible windows, and its offsets are document offsets: the document
\* text at the span is the selected text, or a word of the span's keyword
\* group, up to letter case.
C12_SpansInsideWindows ==
    \A i \in 1..Len(decorations) :
        LET m == decorations[i]
        IN  /\ m.from < m.to
            /\ \E w \in 1..Len(visibleRanges) :
                   visibleRanges[w].from <= m.from /\ m.to <= visibleRanges[w].to
            /\ IF IsSelectionSpan(m)
               THEN Fold(Slice(doc, m.from, m.to)) = Fold(SelectedText(doc, selection))
               ELSE Fold(Slice(doc, m.from, m.to)) \in WordsStyled(m)

\* two windows with a gap: an occurrence of the selected text in the gap
\* carries no span, one in the second window does, at its document offset
C12_Witness ==
    /\ Len(visibleRanges) = 2
    /\ visibleRanges[1].to < visibleRanges[2].from
    /\ Usable(doc, selection)
    /\ Fold(Slice(doc, visibleRanges[1].to, visibleRanges[2].from))
           = Fold(SelectedText(doc, selection))
    /\ \E i \in 1..Len(decorations) :
           /\ IsSelectionSpan(decorations[i])
           /\ decorations[i].from >= visibleRanges[2].from


\* the precedence of the source of a span: 0 for the selection, else the
\* place of its keyword group in the declaration order
Rank(m) ==
    IF IsSelectionSpan(m) THEN 0
    ELSE Min({k \in 1..Len(settings.keywordGroups) :
                 getGroupDecoration(settings.keywordGroups[k].id) = m.deco})

\* C17 as stated: spans with the same start offset stand in the order of
\* source precedence, and in ascending order of end offset only within one
\* source.
C17_PrecedenceThenEnd ==
    \A i, j \in 1..Len(decorations) :
        (i < j /\ decorations[i].from = decorations[j].from)
            => \/ Rank(decorations[i]) < Rank(decorations[j])
               \/ /\ Rank(decorations[i]) = Rank(decorations[j])
                  /\ decorations[i].to <= decorations[j].to

\* C17: spans with the same start offset stand in ascending order of end
\* offset, whatever their sources.
C17_EndAscending ==
    \A i, j \in 1..Len(decorations) :
        (i < j /\ decorations[i].from = decorations[j].from)
            => decorations[i].to < decorations[j].to

\* a keyword span stands before the longer selection span that starts at the
\* same offset
C17_Witness ==
    \E i, j \in 1..Len(decorations) :
        /\ i < j
        /\ decorations[i].from = decorations[j].from
        /\ ~IsSelectionSpan(decorations[i])
        /\ IsSelectionSpan(decorations[j])


\* text from offset p on, with every occurrence of lit found by a plain
\* left-to-right substring search, resumed after each occurrence, put
\* between two pairs of the marker character
RECURSIVE WrapAllFrom(_, _, _)
WrapAllFrom(text, lit, p) ==
    IF p >= Len(text) THEN <<>>
    ELSE IF p + Len(lit) <= Len(text) /\ Slice(text, p, p + Len(lit)) = lit
         THEN <<"=", "=">> \o lit \o <<"=", "=">> \o WrapAllFrom(text, lit, p + Len(lit))
         ELSE <<text[p + 1]>> \o WrapAllFrom(text, lit, p + 1)

\* C13: the text a Wrap leaves is the text before it with every
\* left-to-right, non-overlapping, case-sensitive substring occurrence of the
\* selected literal replaced by "==" occurrence "==", every other character
\* unchanged and in place, over the whole document.
C13_WrapsEveryOccurrence ==
    (last.cmd = "wrap" /\ last.ran) => doc = WrapAllFrom(last.before, last.sel, 0)

\* a Wrap that found two occurrences in a text that also holds another
\* character
C13_Witness ==
    /\ last.cmd = "wrap"
    /\ last.ran
    /\ Len(last.sel) = 1
    /\ Len(last.before) = 3
    /\ Len(doc) = 11


\* C18: the ranges of one invocation are replaced in descending order of
\* position, and each holds, at the moment it is replaced, the text the
\* document held there before the invocation.
C18_RightmostFirst ==
    /\ \A i, j \in 1..Len(applied) : i < j => applied[j].to <= applied[i].from
    /\ \A i \in 1..Len(applied) :
          applied[i].text = Slice(last.before, applied[i].from, applied[i].to)

\* a tag command replaced two ranges, one transaction each
C18_Witness ==
    /\ last.cmd = "tag"
    /\ Len(applied) >= 2
    /\ Len(txLog) = Len(applied)

\* C19: when the active view's editor exposes no CodeMirror view, Wrap and
\* Unwrap show a notice, raise no fault and leave the text as it was.
C19_HostUnavailableReported ==
    (last.cmd \in {"wrap", "unwrap"} /\ last.view /\ ~last.cm)
        => (~fault /\ notice # "none" /\ doc = last.before)


\* the characters of a and b are the same, up to letter case under fold
SameText(a, b, fold) == IF fold THEN Fold(a) = Fold(b) ELSE a = b

\* the 0-based offsets at which lit occurs in text
Occurrences(text, lit, fold) ==
    {p \in 0..(Len(text) - Len(lit)) : SameText(Slice(text, p, p + Len(lit)), lit, fold)}

\* a plain left-to-right substring search from offset p, resumed after each
\* occurrence
RECURSIVE PlainSearch(_, _, _, _)
PlainSearch(text, lit, fold, p) ==
    IF p + Len(lit) > Len(text) THEN <<>>
    ELSE IF p \in Occurrences(text, lit, fold)
         THEN <<[from |-> p, to |-> p + Len(lit)]>> \o PlainSearch(text, lit, fold, p + Len(lit))
         ELSE PlainSearch(text, lit, fold, p + 1)

\* C14: building a pattern never fails, and the pattern built from a
\* non-empty literal without the whole-word option matches exactly where a
\* plain left-to-right substring search finds the literal (compared up to
\* letter case when the case-insensitive flag is set), whatever
\* metacharacters the literal holds.
C14_LiteralMatchesOnly ==
    probe.ran =>
        /\ ~probe.threw
        /\ ~probe.wholeWord =>
              probe.matches = PlainSearch(probe.text, probe.literal, ~probe.caseSensitive, 0)

\* a literal holding the wildcard and the escape character was found in a
\* text that also holds a word character
C14_Witness ==
    /\ probe.ran
    /\ ~probe.wholeWord
    /\ probe.literal = <<".", "\\">>
    /\ probe.matches # <<>>
    /\ \E i \in 1..Len(probe.text) : probe.text[i] \in WordChars

\* the occurrence at offset p has no word character right before or after it
Standalone(text, lit, p) ==
    /\ p = 0 \/ text[p] \notin WordChars
    /\ p + Len(lit) = Len(text) \/ text[p + Len(lit) + 1] \notin WordChars

\* C15: for a literal of word characters only, the whole-word pattern
\* matches an occurrence exactly when no word character stands right before
\* or after it, while the pattern without the option finds the occurrences
\* inside longer words too: every occurrence is matched or overlaps a match.
C15_WholeWordBoundaries ==
    (probe.ran /\ \A i \in 1..Len(probe.literal) : probe.literal[i] \in WordChars) =>
        LET occ   == Occurrences(probe.text, probe.literal, ~probe.caseSensitive)
            found == {probe.matches[i].from : i \in 1..Len(probe.matches)}
            n     == Len(probe.literal)
        IN  /\ \A i \in 1..Len(probe.matches) : probe.matches[i].to = probe.matches[i].from + n
            /\ found \subseteq occ
            /\ IF probe.wholeWord
               THEN found = {p \in occ : Standalone(probe.text, probe.literal, p)}
               ELSE \A p \in occ : \E q \in found : q <= p /\ p < q + n

\* a whole-word pattern matched the word standing alone and passed over its
\* occurrence inside a longer word
C15_Witness ==
    /\ probe.ran
    /\ probe.wholeWord
    /\ probe.literal = <<"a">>
    /\ probe.caseSensitive
    /\ Len(probe.matches) = 1
    /\ Cardinality(Occurrences(probe.text, probe.literal, FALSE)) = 3
    /\ Cardinality(Occurrences(probe.text, probe.literal, TRUE)) = 3


\* C11: once an operation has completed, the stored DecorationSet is what a
\* recomputation on the current document, selection, windows and settings
\* produces.
C11_NoStaleDecorations ==
    decorations = buildDecorations(settings, doc, selection, visibleRanges,
                                   statusBarOccurrencesNumber).decorations

\* C16: right after Reset every setting has its default value; the list of
\* keyword groups is empty.
C16_ResetRestoresDefaults == trigger = "reset" => settings = DEFAULT_SETTINGS

\* C20: after an update notification the flags read by the last
\* recomputation are the current ones: a notification that finds a tracked
\* flag changed recomputes.
C20_UpdateSeesFlagChange == trigger = "update" => pass = TrackedFlags(settings)


\* C21: an update notification runs at most one pass, and one in which
\* neither the selection, the text nor the windows changed, and no tracked
\* flag differs from what the last pass read, runs none and leaves the
\* stored DecorationSet as it was.
C21_AtMostOnePass ==
    [][trigger' = "update" =>
          /\ passes' <= 1
          /\ (/\ selection' = selection
              /\ doc' = doc
              /\ visibleRanges' = visibleRanges
              /\ pass = TrackedFlags(settings))
                => (passes' = 0 /\ decorations' = decorations)]_vars

\* a notification without a relevant change ran no pass over a view that
\* holds highlights
C21_Witness ==
    /\ trigger = "update"
    /\ passes = 0
    /\ pass = TrackedFlags(settings)
    /\ decorations # <<>>


\* the spans a plain left-to-right search for lit finds in the text of
\* window w, at their document offsets
WindowSpans(w, lit, fold) ==
    LET found == PlainSearch(Slice(doc, w.from, w.to), lit, fold, 0)
    IN  {<<w.from + found[i].from, w.from + found[i].to>> : i \in 1..Len(found)}

\* C22: what a window yields does not depend on the windows scanned before
\* it: the selection-source spans are, window by window, all the
\* non-overlapping left-to-right matches of the window's own text.
C22_WindowsIndependent ==
    (settings.occuraPluginEnabled /\ Usable(doc, selection)) =>
        {<<decorations[i].from, decorations[i].to>> :
            i \in {j \in 1..Len(decorations) : IsSelectionSpan(decorations[j])}}
        = UNION {WindowSpans(visibleRanges[w], SelectedText(doc, selection),
                             ~settings.occuraCaseSensitive) :
                    w \in 1..Len(visibleRanges)}

\* the second of two windows holds a match that starts at its first
\* character, after a match was found in the first window
C22_Witness ==
    /\ Len(visibleRanges) = 2
    /\ settings.occuraPluginEnabled
    /\ Usable(doc, selection)
    /\ WindowSpans(visibleRanges[1], SelectedText(doc, selection), FALSE) # {}
    /\ \E sp \in WindowSpans(visibleRanges[2], SelectedText(doc, selection), FALSE) :
          sp[1] = visibleRanges[2].from
    /\ \E i \in 1..Len(decorations) :
          IsSelectionSpan(decorations[i]) /\ decorations[i].from = visibleRanges[2].from


\* C23: a keyword-group span stands in the DecorationSet only while the
\* plugin and keyword highlighting are enabled; it carries the style of an
\* enabled group that holds a non-blank word whose text stands there as a
\* whole word, in any letter case when the group ignores case and in the
\* exact case when it does not.
C23_KeywordSpansFromEnabledGroups ==
    \A i \in 1..Len(decorations) :
        LET m == decorations[i] IN
        ~IsSelectionSpan(m) =>
            /\ settings.occuraPluginEnabled
            /\ settings.autoKeywordsHighlightEnabled
            /\ \E k \in 1..Len(settings.keywordGroups) :
                  LET group == settings.keywordGroups[k] IN
                  /\ group.enabled
                  /\ m.deco = getGroupDecoration(group.id)
                  /\ \E j \in 1..Len(group.keywords) :
                        LET w == trim(group.keywords[j]) IN
                        /\ w # <<>>
                        /\ SameText(Slice(doc, m.from, m.to), w, ~group.caseSensitive)
                        /\ Standalone(doc, w, m.from)


\* C24: a pattern asked to match whole words has boundaries exactly when its
\* literal holds word characters only: then every match stands alone, and
\* for a literal with any other character the matches are those of the
\* plain substring search, as without the option.
C24_BoundariesOnlyForPureWords ==
    (probe.ran /\ probe.wholeWord) =>
        IF \A i \in 1..Len(probe.literal) : probe.literal[i] \in WordChars
        THEN \A i \in 1..Len(probe.matches) :
                Standalone(probe.text, probe.literal, probe.matches[i].from)
        ELSE probe.matches =
                PlainSearch(probe.text, probe.literal, ~probe.caseSensitive, 0)

\* a whole-word pattern for a literal of a word character and a full stop
\* matched right behind a word character
C24_Witness ==
    /\ probe.ran
    /\ probe.wholeWord
    /\ probe.literal = <<"a", ".">>
    /\ \E i \in 1..Len(probe.matches) :
          /\ probe.matches[i].from > 0
          /\ probe.text[probe.matches[i].from] \in WordChars


\* the exec loop over text comes to an end: every match it finds has a
\* positive length, so the cursor of the expression moves on
Advances(re, text) ==
    \A i \in 1..Len(ExecAll(re, text)) : ExecAll(re, text)[i].length > 0

\* the literals a pass over the current view state builds patterns from,
\* each with its two flags
PassPatterns ==
    (IF settings.occuraPluginEnabled /\ Usable(doc, selection)
     THEN {<<SelectedText(doc, selection), settings.occuraCaseSensitive, FALSE>>}
     ELSE {})
    \cup
    (IF settings.occuraPluginEnabled /\ settings.autoKeywordsHighlightEnabled
     THEN UNION {{<<Words(settings.keywordGroups[k])[i],
                    settings.keywordGroups[k].caseSensitive, TRUE>> :
                     i \in 1..Len(Words(settings.keywordGroups[k]))} :
                 k \in {g \in 1..Len(settings.keywordGroups) :
                           settings.keywordGroups[g].enabled}}
     ELSE {})

\* the literals the four commands build patterns from when the editor hands
\* them the selection text sel
CommandPatterns(sel) ==
    IF trim(sel) = <<>> \/ HasSpace(trim(sel)) THEN {}
    ELSE {<<trim(sel), FALSE>>, <<<<"=", "=">> \o trim(sel) \o <<"=", "=">>, FALSE>>,
          <<trim(sel), TRUE>>, <<<<"#">> \o trim(sel), FALSE>>}

\* C26: no pattern is built from an empty literal, neither by a pass over
\* the view nor by a command on any selection of the document, and every
\* scan loop ends: each match has a positive length.
C26_EveryScanEnds ==
    /\ \A p \in PassPatterns :
          /\ p[1] # <<>>
          /\ \A w \in 1..Len(visibleRanges) :
                Advances(buildRegex(p[1], p[2], p[3]),
                         Slice(doc, visibleRanges[w].from, visibleRanges[w].to))
    /\ \A sel \in Selections(doc) :
          \A p \in CommandPatterns(sel) :
              p[1] # <<>> /\ Advances(buildRegex(p[1], TRUE, p[2]), doc)

\* a pass ran over a class that holds a blank word next to a word that was
\* found
C26_Witness ==
    /\ settings.occuraPluginEnabled
    /\ settings.autoKeywordsHighlightEnabled
    /\ \E k \in 1..Len(settings.keywordGroups) :
          /\ settings.keywordGroups[k].enabled
          /\ \E j \in 1..Len(settings.keywordGroups[k].keywords) :
                trim(settings.keywordGroups[k].keywords[j]) = <<>>
          /\ \E i \in 1..Len(decorations) :
                decorations[i].deco = getGroupDecoration(settings.keywordGroups[k].id)


\* C25: the configuration changes only in a toggle step, which flips its
\* flag and nothing else of the configuration although it recomputes, and
\* leaves what the commands left; a command step changes no setting.
C25_ConfigurationOnlyByToggle ==
    [][settings' # settings =>
          /\ settings' = [settings EXCEPT !.occuraPluginEnabled = ~@]
          /\ <<doc, notice, fault, txLog, last, rt, applied>>'
                = <<doc, notice, fault, txLog, last, rt, applied>>]_vars

\* the plugin was loaded switched off, a toggle recomputed and a command
\* then edited the document: the settings are the saved ones but for the flag
C25_Witness ==
    /\ ~shared
    /\ last.ran
    /\ doc # last.before
    /\ settings = DEFAULT_SETTINGS

\* C27: a command step taken while the plugin is disabled leaves the text as
\* it is and shows only the notice that asks to enable the plugin; while the
\* plugin is enabled that notice is never shown, the command function is
\* entered.
C27_DisabledCommandsOnlyNotify ==
    [][(settings' = settings /\ last' # NoInvocation) =>
          IF settings.occuraPluginEnabled
          THEN notice' # "Please enable Occura"
          ELSE /\ notice' = "Please enable Occura"
               /\ doc' = doc
               /\ ~fault'
               /\ txLog' = <<>>
               /\ applied' = <<>>]_vars

\* Wrap was invoked, while the plugin was disabled, on a text that holds a
\* word to wrap
C27_Witness ==
    /\ ~settings.occuraPluginEnabled
    /\ notice = "Please enable Occura"
    /\ last.cmd = "wrap"
    /\ \E i \in 1..Len(doc) : doc[i] = "a"


\* C30: the plugin owns at most one status-bar item, and the item the live
\* highlighter writes to exists exactly when that one item was made.
C30_OneStatusBarItem ==
    /\ statusBarOccurrencesNumber.items <= 1
    /\ statusBarOccurrencesNumber.exists <=> statusBarOccurrencesNumber.items = 1

\* the plugin was loaded switched off, with no item, and has since been
\* switched on, and the highlighter has written a count to the item
C30_Witness ==
    /\ ~shared
    /\ settings.occuraPluginEnabled
    /\ statusBarOccurrencesNumber.items = 1
    /\ statusBarOccurrencesNumber.text # <<>>


\* C28: when the key event that was pressed produces, through captureHotkey,
\* the stored hotkey string, and its key is not a modifier key, the installed
\* listener has toggled highlighting on it.
C28_CapturedHotkeyToggles ==
    (/\ keyboard.loaded
     /\ keyboard.pressed # <<>>
     /\ keyboard.pressed.key # "Control"
     /\ captureHotkey(keyboard.pressed) = keyboard.stored)
        => /\ keyboard.fired = 1
           /\ settings.occuraPluginEnabled = ~keyboard.before

\* C29: at most one keydown listener of the plugin is on the window; while
\* the plugin is loaded it is this.keyHandler, made for the stored hotkey
\* string, and after onunload there is none; a key press that matches the
\* stored hotkey has toggled the enabled flag exactly once.
C29_OneListener ==
    /\ Cardinality(keyboard.listeners) <= 1
    /\ keyboard.loaded =>
          keyboard.listeners =
             {[id |-> keyboard.keyHandler,
               hotkey |-> parseHotkeyString(keyboard.stored, keyboard.isMacOS)]}
    /\ ~keyboard.loaded => keyboard.listeners = {}
    /\ (/\ keyboard.loaded
        /\ keyboard.pressed # <<>>
        /\ Handles(parseHotkeyString(keyboard.stored, keyboard.isMacOS), keyboard.pressed))
          => /\ keyboard.fired = 1
             /\ settings.occuraPluginEnabled = ~keyboard.before

\* the hotkey was changed in the Hotkey field, which replaced the listener
\* made in onload, and a press of the new hotkey then toggled
C29_Witness ==
    /\ keyboard.loaded
    /\ keyboard.keyHandler > 1
    /\ keyboard.stored = <<"Mod", "+", "A">>
    /\ keyboard.pressed # <<>>
    /\ keyboard.fired = 1

=============================================================================
